---- MODULE Spec2Model ----
(***************************************************************************)
(* PhysicsSimulation (the physics demo of the Spawnpoint playground) as a  *)
(* state machine: the click/touch handlers, the requestAnimationFrame      *)
(* callback and the three parts of one frame (integrate-and-clamp loop,    *)
(* pairwise collision pass, drawing and rescheduling); and, beside it, the *)
(* ParticleSystem of the same page.                                        *)
(*                                                                         *)
(* Numbers.  The program computes in IEEE doubles.  The model keeps every  *)
(* Number on a fixed-point grid of Scale units per pixel (per ms for       *)
(* times, per 1.0 for factors): each product and quotient is rounded to    *)
(* the nearest grid point, and NaN is a value of its own that every        *)
(* arithmetic operation propagates and every comparison answers false on,  *)
(* as in IEEE 754.                                                         *)
(*                                                                         *)
(* Specifications.  Spec is the whole machine on a few click points;       *)
(* SpecCap lets clicks come until the population cap and past it; SpecPair *)
(* applies checkCollision to pairs of bodies drawn from bounded sets;      *)
(* SpecBounce steps one body against the walls; SpecSteps runs update one  *)
(* loop iteration at a time; SpecParticleSystem is the ParticleSystem with *)
(* its button, its frames and the reduced-motion preference.               *)
(***************************************************************************)
EXTENDS Integers, Sequences, FiniteSets, TLC

\* ------------------------------------------------------------------------
\* Bounds of the model (not program constants)
\* ------------------------------------------------------------------------
MaxBodies == 2
MaxFrames == 2
BounceFrames == 20
StepBodies == 3
StepFrames == 1
ParticleFrames == 3
Tol == 6

\* ------------------------------------------------------------------------
\* Program constants, on the fixed-point grid
\* ------------------------------------------------------------------------
Scale == 100
RandomGrid == 300
NaN == -99999999

MaxObjects == 50
CanvasWidth == 60000
CanvasHeight == 40000
GravityX == 0
GravityY == 50
Restitution == 80
Friction == 99
FrameMs == 1667
DtCap == 200

\* ------------------------------------------------------------------------
\* Number arithmetic
\* ------------------------------------------------------------------------
IsNaN(a) == a = NaN

Abs(a) == IF a < 0 THEN -a ELSE a

\* a / b for b > 0, rounded to the nearest integer (half away from zero)
RDiv(a, b) == IF a >= 0 THEN (2 * a + b) \div (2 * b)
                        ELSE -((2 * (-a) + b) \div (2 * b))

Add(a, b) == IF IsNaN(a) \/ IsNaN(b) THEN NaN ELSE a + b

Sub(a, b) == IF IsNaN(a) \/ IsNaN(b) THEN NaN ELSE a - b

Neg(a) == IF IsNaN(a) THEN NaN ELSE -a

Mul(a, b) == IF IsNaN(a) \/ IsNaN(b) THEN NaN ELSE RDiv(a * b, Scale)

\* a / b.  0 / 0 is NaN.  The only divisors of the program are 16.67, a sum
\* of two positive masses and the distance, which is 0 only when dx = dy = 0,
\* so x / 0 with x # 0 (Infinity) never arises.
Div(a, b) == IF IsNaN(a) \/ IsNaN(b) \/ b = 0 THEN NaN ELSE RDiv(a * Scale, b)

\* IEEE comparisons: false as soon as one side is NaN
Lt(a, b) == ~IsNaN(a) /\ ~IsNaN(b) /\ a < b

Gt(a, b) == ~IsNaN(a) /\ ~IsNaN(b) /\ a > b

Min(a, b) == IF IsNaN(a) \/ IsNaN(b) THEN NaN ELSE IF a < b THEN a ELSE b

RECURSIVE SqrtSearch(_, _, _)
\* the largest s in lo..hi with s * s <= n
SqrtSearch(n, lo, hi) ==
    IF lo >= hi THEN lo
    ELSE LET mid == (lo + hi + 1) \div 2
         IN  IF mid * mid <= n THEN SqrtSearch(n, mid, hi)
                               ELSE SqrtSearch(n, lo, mid - 1)

\* Math.sqrt of n >= 0 (n in grid units squared), rounded to the nearest unit
Sqrt(n) == LET s == SqrtSearch(n, 0, 46340)
           IN  IF n - s * s > s THEN s + 1 ELSE s

\* ------------------------------------------------------------------------
\* Bodies
\* ------------------------------------------------------------------------
\* Drawn gone wrong: radius = random * 25 + 10
DrawnWide(x, y, rnd) ==
    [x |-> x, y |-> y,
     radius |-> RDiv(rnd[1] * 25 * Scale, RandomGrid) + 10 * Scale,
     hue |-> RDiv(rnd[2] * 360, RandomGrid),
     vx |-> RDiv((2 * rnd[3] - RandomGrid) * 10 * Scale, 2 * RandomGrid),
     vy |-> RDiv((2 * rnd[4] - RandomGrid) * 10 * Scale, 2 * RandomGrid)]

\* What addObjectAt(x, y) computes from its four Math.random() calls, each
\* giving n / RandomGrid for some n in 0..RandomGrid - 1, rnd being the
\* numerators in the order of the calls: radius = random * 15
\* + 10, the hue random * 360 of the color, vx and vy = (random - 0.5) * 10
Drawn(x, y, rnd) ==
    [x |-> x, y |-> y,
     radius |-> RDiv(rnd[1] * 15 * Scale, RandomGrid) + 10 * Scale,
     hue |-> RDiv(rnd[2] * 360, RandomGrid),
     vx |-> RDiv((2 * rnd[3] - RandomGrid) * 10 * Scale, 2 * RandomGrid),
     vy |-> RDiv((2 * rnd[4] - RandomGrid) * 10 * Scale, 2 * RandomGrid)]

\* NewObject gone wrong: the body is put inside the left wall
NewObjectClamped(draw) ==
    [x |-> IF draw.x < draw.radius THEN draw.radius ELSE draw.x,
     y |-> draw.y, vx |-> draw.vx, vy |-> draw.vy,
     radius |-> draw.radius, mass |-> RDiv(draw.radius, 5),
     color |-> <<"hsl", draw.hue, 70, 60>>,
     restitution |-> Restitution, friction |-> Friction]

\* The object literal of addObjectAt; draw holds the click point and the
\* values computed from Math.random()
NewObject(draw) ==
    [x |-> draw.x, y |-> draw.y, vx |-> draw.vx, vy |-> draw.vy,
     radius |-> draw.radius, mass |-> RDiv(draw.radius, 5),
     color |-> <<"hsl", draw.hue, 70, 60>>,
     restitution |-> Restitution, friction |-> Friction]

\* DtFactor gone wrong: no cap
DtFactorUncapped(deltaTime) == Div(deltaTime, FrameMs)

\* dt of update: Math.min(deltaTime / 16.67, 2)
DtFactor(deltaTime) == Min(Div(deltaTime, FrameMs), DtCap)

\* ApplyGravity gone wrong: the gravityEnabled test is dropped
ApplyGravityAlways(obj, dtf, gEnabled) ==
    [obj EXCEPT !.vx = Add(obj.vx, Mul(GravityX, dtf)),
                !.vy = Add(obj.vy, Mul(GravityY, dtf))]

\* obj.vx += gravity.x * dt; obj.vy += gravity.y * dt, when gravity is enabled
ApplyGravity(obj, dtf, gEnabled) ==
    IF gEnabled
    THEN [obj EXCEPT !.vx = Add(obj.vx, Mul(GravityX, dtf)),
                     !.vy = Add(obj.vy, Mul(GravityY, dtf))]
    ELSE obj

\* obj.vx *= obj.friction; obj.vy *= obj.friction
ApplyFriction(obj) ==
    [obj EXCEPT !.vx = Mul(obj.vx, obj.friction),
                !.vy = Mul(obj.vy, obj.friction)]

\* obj.x += obj.vx * dt; obj.y += obj.vy * dt
UpdatePosition(obj, dtf) ==
    [obj EXCEPT !.x = Add(obj.x, Mul(obj.vx, dtf)),
                !.y = Add(obj.y, Mul(obj.vy, dtf))]

\* Integrate gone wrong: the position is advanced with the velocity of the
\* step before, and gravity and damping come after
IntegratePositionFirst(obj, dtf, gEnabled) ==
    ApplyFriction(ApplyGravity(UpdatePosition(obj, dtf), dtf, gEnabled))

\* gravity, then damping, then position
Integrate(obj, dtf, gEnabled) ==
    UpdatePosition(ApplyFriction(ApplyGravity(obj, dtf, gEnabled)), dtf)

\* BounceLowX gone wrong: the velocity is turned, the center is left
\* where it is
BounceLowXNoClamp(obj) ==
    IF Lt(Sub(obj.x, obj.radius), 0)
    THEN [obj EXCEPT !.vx = Mul(Neg(obj.vx), obj.restitution)]
    ELSE obj

\* The four boundary tests of update, in the code's order: low x, high x,
\* low y, high y, each on the result of the one before.
BounceLowX(obj) ==
    IF Lt(Sub(obj.x, obj.radius), 0)
    THEN [obj EXCEPT !.x = obj.radius,
                     !.vx = Mul(Neg(obj.vx), obj.restitution)]
    ELSE obj

BounceHighX(obj, w) ==
    IF Gt(Add(obj.x, obj.radius), w)
    THEN [obj EXCEPT !.x = w - obj.radius,
                     !.vx = Mul(Neg(obj.vx), obj.restitution)]
    ELSE obj

BounceLowY(obj) ==
    IF Lt(Sub(obj.y, obj.radius), 0)
    THEN [obj EXCEPT !.y = obj.radius,
                     !.vy = Mul(Neg(obj.vy), obj.restitution)]
    ELSE obj

\* BounceHighY gone wrong: the velocity is reflected without the restitution
BounceHighYElastic(obj, h) ==
    IF Gt(Add(obj.y, obj.radius), h)
    THEN [obj EXCEPT !.y = h - obj.radius, !.vy = Neg(obj.vy)]
    ELSE obj

BounceHighY(obj, h) ==
    IF Gt(Add(obj.y, obj.radius), h)
    THEN [obj EXCEPT !.y = h - obj.radius,
                     !.vy = Mul(Neg(obj.vy), obj.restitution)]
    ELSE obj

BoundaryCollisions(obj, w, h) ==
    BounceHighY(BounceLowY(BounceHighX(BounceLowX(obj), w)), h)

\* One iteration of the first loop of update
UpdateObject(obj, dtf, gEnabled, w, h) ==
    BoundaryCollisions(Integrate(obj, dtf, gEnabled), w, h)

\* The first loop of update: every body, in collection order
UpdateObjects(objs, dtf, gEnabled, w, h) ==
    [i \in 1..Len(objs) |-> UpdateObject(objs[i], dtf, gEnabled, w, h)]

\* ------------------------------------------------------------------------
\* checkCollision
\* ------------------------------------------------------------------------
\* Math.sqrt(dx * dx + dy * dy) < minDistance.  The distance is at least
\* max(|dx|, |dy|), so the test is false without squaring when either is
\* already minDistance or more (which also keeps the squares small).
Distance(dx, dy) ==
    IF IsNaN(dx) \/ IsNaN(dy) THEN NaN ELSE Sqrt(dx * dx + dy * dy)

Near(dx, dy, minDistance) ==
    /\ ~IsNaN(dx) /\ ~IsNaN(dy)
    /\ Abs(dx) < minDistance /\ Abs(dy) < minDistance
    /\ Lt(Distance(dx, dy), minDistance)

\* a * b / c with one rounding, of the result: a quotient b / c of two
\* doubles carries sixteen digits into the product, far more than the grid
MulDiv(a, b, c) ==
    IF IsNaN(a) \/ IsNaN(b) \/ IsNaN(c) \/ c = 0 THEN NaN ELSE RDiv(a * b, c)

\* MoveShare gone wrong: each body is moved back by the whole overlap
MoveShareWhole(overlap, otherMass, totalMass) == overlap

\* MoveShare gone wrong: a body is moved by the share of its own mass
MoveShareOwn(overlap, otherMass, totalMass) ==
    MulDiv(overlap, totalMass - otherMass, totalMass)

\* MoveShare gone wrong: the bodies are pulled together
MoveShareInward(overlap, otherMass, totalMass) ==
    Neg(MulDiv(overlap, otherMass, totalMass))

\* overlap * (otherMass / totalMass): how far a body is moved back
MoveShare(overlap, otherMass, totalMass) == MulDiv(overlap, otherMass, totalMass)

\* Impulse gone wrong: the restitution is taken as 1
ImpulseElastic(restitution, relativeSpeed, totalMass) ==
    Div(Mul(2 * Scale, relativeSpeed), totalMass)

\* (1 + restitution) * relativeSpeed / totalMass
Impulse(restitution, relativeSpeed, totalMass) ==
    Div(Mul(Scale + restitution, relativeSpeed), totalMass)

\* Kick gone wrong: the components of the normal are swapped
KickSkewed(obj, amount, normalX, normalY) ==
    [obj EXCEPT !.vx = Add(obj.vx, Mul(amount, normalY)),
                !.vy = Add(obj.vy, Mul(amount, normalX))]

\* obj.vx += amount * normalX; obj.vy += amount * normalY
Kick(obj, amount, normalX, normalY) ==
    [obj EXCEPT !.vx = Add(obj.vx, Mul(amount, normalX)),
                !.vy = Add(obj.vy, Mul(amount, normalY))]

\* KickAmount gone wrong: the mass of the other body is left out
KickAmountUnweighted(impulse, otherMass) == impulse

\* impulse * obj2.mass for obj1, impulse * obj1.mass for obj2
KickAmount(impulse, otherMass) == Mul(impulse, otherMass)

\* Separating gone wrong: no pair is taken as separating
SeparatingNever(relativeSpeed) == FALSE

\* if (relativeSpeed > 0) return;
Separating(relativeSpeed) == Gt(relativeSpeed, 0)

\* The pair after checkCollision(obj1, obj2), as <<obj1, obj2>>
CheckCollision(obj1, obj2) ==
    LET dx == Sub(obj2.x, obj1.x)
        dy == Sub(obj2.y, obj1.y)
        minDistance == obj1.radius + obj2.radius
    IN  IF ~Near(dx, dy, minDistance) THEN <<obj1, obj2>>
        ELSE
        LET distance == Distance(dx, dy)
            overlap == Sub(minDistance, distance)
            normalX == Div(dx, distance)
            normalY == Div(dy, distance)
            totalMass == obj1.mass + obj2.mass
            move1 == MoveShare(overlap, obj2.mass, totalMass)
            move2 == MoveShare(overlap, obj1.mass, totalMass)
            p1 == [obj1 EXCEPT !.x = Sub(obj1.x, Mul(normalX, move1)),
                               !.y = Sub(obj1.y, Mul(normalY, move1))]
            p2 == [obj2 EXCEPT !.x = Add(obj2.x, Mul(normalX, move2)),
                               !.y = Add(obj2.y, Mul(normalY, move2))]
            relativeVx == Sub(obj2.vx, obj1.vx)
            relativeVy == Sub(obj2.vy, obj1.vy)
            relativeSpeed == Add(Mul(relativeVx, normalX), Mul(relativeVy, normalY))
            restitution == Min(obj1.restitution, obj2.restitution)
            impulse == Impulse(restitution, relativeSpeed, totalMass)
        IN  IF Separating(relativeSpeed) THEN <<p1, p2>>
            ELSE << Kick(p1, KickAmount(impulse, obj2.mass), normalX, normalY),
                    Kick(p2, Neg(KickAmount(impulse, obj1.mass)), normalX, normalY) >>

\* objs after checkCollision(objs[i], objs[j])
CollidePair(objs, i, j) ==
    LET r == CheckCollision(objs[i], objs[j])
    IN  [objs EXCEPT ![i] = r[1], ![j] = r[2]]

RECURSIVE CollideFrom(_, _, _)
\* The second loop of update from pair (i, j) on: i ascending, j from i + 1
CollideFrom(objs, i, j) ==
    IF i > Len(objs) THEN objs
    ELSE IF j > Len(objs) THEN CollideFrom(objs, i + 1, i + 2)
    ELSE CollideFrom(CollidePair(objs, i, j), i, j + 1)

CollideAll(objs) == CollideFrom(objs, 1, 2)

\* ------------------------------------------------------------------------
\* State
\* ------------------------------------------------------------------------
VARIABLES
    objects,        \* this.objects: the bodies, in insertion order
    objectCount,    \* this.objectCount, shown in the status display
    isRunning,      \* this.isRunning
    gravityEnabled, \* this.gravityEnabled
    animationId,    \* this.animationId: 0 is null, else a frame request id
    pending,        \* the requestAnimationFrame callbacks scheduled and not yet run or cancelled
    pc,             \* where the frame in progress stands: "idle" between tasks,
                    \* "integrated" after the first loop of update,
                    \* "collided" after update, before the drawing; and
                    \* where update is run one iteration at a time,
                    \* "integrate", "boundary" and "pairs" inside its loops
    dt,             \* the dt of the update in progress (0 between frames)
    width,          \* this.canvas.width
    height,         \* this.canvas.height
    budget,         \* frames the model still lets run
    lastSpawn,      \* the last addObjectAt call: whether it pushed, what it
                    \* returned, the point (x, y) it was given
    deltaTime,      \* the deltaTime of the render in progress (0 between frames)
    loopI,          \* i of the loop of update in progress, counted from 1
                    \* (0 outside the loops)
    loopJ,          \* j of the pair loop of update, counted from 1 (0 outside it)
    \* ParticleSystem
    prefersReducedMotion,   \* matchMedia('(prefers-reduced-motion: reduce)').matches
    particleCanvas,         \* <<canvas.width, canvas.height>> of the particle canvas, in px
    particles,              \* this.particles
    particlesRunning,       \* this.isRunning of the ParticleSystem
    particlesAnimationId,   \* this.animationId of the ParticleSystem: 0 is null
    particlesPending,       \* its frame requests scheduled and not yet run or cancelled
    toggleBtnText,          \* textContent of its toggle button
    particleBudget          \* animate passes the model still lets run

loopVars == <<loopI, loopJ>>

particleVars == <<prefersReducedMotion, particleCanvas, particles, particlesRunning,
                  particlesAnimationId, particlesPending, toggleBtnText,
                  particleBudget>>

simulationVars == <<objects, objectCount, isRunning, gravityEnabled, animationId,
                    pending, pc, dt, width, height, budget, lastSpawn, deltaTime,
                    loopVars>>

vars == <<simulationVars, particleVars>>

\* ------------------------------------------------------------------------
\* Inputs
\* ------------------------------------------------------------------------
\* Click points with the numerators Math.random() gave (radius, hue, vx,
\* vy), for the full machine: a body across the left wall, its neighbour, a
\* body in the open, a body across the bottom right corner, and a body
\* with the greatest radius and velocities at the ends of their range.
SpawnDraws ==
    { Drawn(500, 20000, <<0, 0, 150, 150>>),
      Drawn(2000, 20000, <<0, 100, 240, 90>>),
      Drawn(30000, 10000, <<200, 200, 60, 210>>),
      Drawn(59500, 39500, <<0, 50, 240, 240>>),
      Drawn(45000, 20000, <<RandomGrid - 1, RandomGrid - 1, RandomGrid - 1, 0>>) }

\* performance.now() differences of a frame callback: one nominal frame, and
\* a long gap that the cap cuts to 2
DeltaTimes == {FrameMs, 3 * FrameMs}

\* ------------------------------------------------------------------------
\* ParticleSystem: its values and its constructor
\* ------------------------------------------------------------------------
\* Sizes (in px) getBoundingClientRect() gives for the particle canvas, dpr 1
ParticleCanvasSizes == { <<200, 100>>, <<300, 100>> }

\* Outcomes of the Math.random() calls of initParticles, one particle after
\* the other: particles next to an edge and in the open
ParticleDraws ==
    { << [x |-> 50,    y |-> 5000, vx |-> -80, vy |-> 30,  radius |-> 200, opacity |-> 50],
         [x |-> 10000, y |-> 9950, vx |-> 60,  vy |-> 90,  radius |-> 300, opacity |-> 30],
         [x |-> 19960, y |-> 40,   vx |-> 70,  vy |-> -50, radius |-> 100, opacity |-> 60] >>,
       << [x |-> 12000, y |-> 3000, vx |-> 0,   vy |-> -99, radius |-> 400, opacity |-> 20],
          [x |-> 100,   y |-> 100,  vx |-> -99, vy |-> -99, radius |-> 100, opacity |-> 70],
          [x |-> 15000, y |-> 6000, vx |-> 25,  vy |-> 0,   radius |-> 250, opacity |-> 45] >> }

\* Math.min(50, Math.floor(canvas.width * canvas.height / 10000))
ParticleCount(size) ==
    LET area == (size[1] * size[2]) \div 10000
    IN  IF area < 50 THEN area ELSE 50

\* this.particles after initParticles()
InitParticles(size, draw) == SubSeq(draw, 1, ParticleCount(size))

\* One particle after its turn in the forEach of animate: moved, then
\* turned round on each axis where it is on or past an edge
AdvanceParticle(particle, size) ==
    LET px == particle.x + particle.vx
        py == particle.y + particle.vy
    IN  [particle EXCEPT
            !.x = px,
            !.y = py,
            !.vx = IF px <= 0 \/ px >= size[1] * Scale THEN -particle.vx
                   ELSE particle.vx,
            !.vy = IF py <= 0 \/ py >= size[2] * Scale THEN -particle.vy
                   ELSE particle.vy]

AdvanceParticles(ps, size) ==
    [k \in 1..Len(ps) |-> AdvanceParticle(ps[k], size)]

\* The state new ParticleSystem() leaves: canvas set up, particles drawn,
\* the button made while isRunning is still false, then start() unless the
\* user prefers reduced motion; start() runs the first animate at once.
ParticleSystemConstructed(reduced, size, draw, frames) ==
    /\ prefersReducedMotion = reduced
    /\ particleCanvas = size
    /\ toggleBtnText = "Start Particles"
    /\ IF reduced
       THEN /\ particles = InitParticles(size, draw)
            /\ particlesRunning = FALSE
            /\ particlesAnimationId = 0
            /\ particlesPending = {}
            /\ particleBudget = frames
       ELSE /\ particles = AdvanceParticles(InitParticles(size, draw), size)
            /\ particlesRunning = TRUE
            /\ particlesAnimationId = 1
            /\ particlesPending = {1}
            /\ particleBudget = frames - 1

\* The ParticleSystem of a page opened with reduced motion preferred, which
\* nothing touches afterwards: it stays as constructed
ParticlesIdle ==
    \E draw \in ParticleDraws :
        /\ draw[1].x = 50
        /\ ParticleSystemConstructed(TRUE, <<200, 100>>, draw, 0)

\* ------------------------------------------------------------------------
\* Initial state: after new PhysicsSimulation()
\* ------------------------------------------------------------------------
SimulationConstructed ==
    /\ objects = <<>>
    /\ objectCount = 0
    /\ isRunning = FALSE
    /\ gravityEnabled = TRUE
    /\ animationId = 0
    /\ pending = {}
    /\ pc = "idle"
    /\ dt = 0
    /\ width = CanvasWidth
    /\ height = CanvasHeight
    /\ budget = MaxFrames
    /\ lastSpawn = [called |-> FALSE, pushed |-> FALSE, returned |-> "undefined",
                    at |-> <<0, 0>>]
    /\ deltaTime = 0
    /\ loopI = 0
    /\ loopJ = 0

Init == SimulationConstructed /\ ParticlesIdle

\* ------------------------------------------------------------------------
\* Handlers
\* ------------------------------------------------------------------------
\* HandlerMayRun gone wrong: a handler may start while a frame is in progress
HandlerMayRunAnyTime == TRUE

\* Listeners and frame callbacks are tasks of one event loop: one starts
\* only when no other is in progress.
HandlerMayRun == pc = "idle"

\* AtCapacity gone wrong: > in place of >=
AtCapacityOffByOne(objs) == Len(objs) > MaxObjects

\* The guard of addObjectAt
AtCapacity(objs) == Len(objs) >= MaxObjects

\* AddObjectAt gone wrong: the push is not followed by updateObjectCount
AddObjectAtStaleCount(draw) ==
    /\ objects' = Append(objects, NewObject(draw))
    /\ lastSpawn' = [called |-> TRUE, pushed |-> TRUE, returned |-> "undefined",
                     at |-> <<draw.x, draw.y>>]
    /\ UNCHANGED <<objectCount, isRunning, gravityEnabled, animationId, pending,
                   pc, dt, deltaTime, width, height, budget>>

\* addObjectAt(x, y) with the random values of draw, updateObjectCount
\* included.  Both exits return undefined.
AddObjectAt(draw) ==
    /\ IF AtCapacity(objects)
       THEN /\ UNCHANGED <<objects, objectCount>>
            /\ lastSpawn' = [called |-> TRUE, pushed |-> FALSE, returned |-> "undefined",
                             at |-> <<draw.x, draw.y>>]
       ELSE /\ objects' = Append(objects, NewObject(draw))
            /\ objectCount' = Len(objects) + 1
            /\ lastSpawn' = [called |-> TRUE, pushed |-> TRUE, returned |-> "undefined",
                             at |-> <<draw.x, draw.y>>]
    /\ UNCHANGED <<isRunning, gravityEnabled, animationId, pending, pc, dt,
                   deltaTime, width, height, budget>>

\* A click or touch on the canvas
Spawn ==
    /\ HandlerMayRun
    /\ Len(objects) < MaxBodies
    /\ \E draw \in SpawnDraws : AddObjectAt(draw)
    /\ UNCHANGED <<loopVars, particleVars>>

\* ToggleGravity gone wrong: the button only switches gravity off
ToggleGravityOff ==
    /\ HandlerMayRun
    /\ gravityEnabled' = FALSE
    /\ UNCHANGED <<objects, objectCount, isRunning, animationId, pending, pc, dt,
                   deltaTime, width, height, budget, lastSpawn>>
    /\ UNCHANGED <<loopVars, particleVars>>

\* toggleGravity(): this.gravityEnabled = !this.gravityEnabled (the label of
\* the button and the vibration are not state of the simulation)
ToggleGravity ==
    /\ HandlerMayRun
    /\ gravityEnabled' = ~gravityEnabled
    /\ UNCHANGED <<objects, objectCount, isRunning, animationId, pending, pc, dt,
                   deltaTime, width, height, budget, lastSpawn>>
    /\ UNCHANGED <<loopVars, particleVars>>

\* ClearObjects gone wrong: only the last body is removed
ClearObjectsPop ==
    /\ HandlerMayRun
    /\ objects' = SubSeq(objects, 1, Len(objects) - 1)
    /\ objectCount' = Len(objects')
    /\ UNCHANGED <<isRunning, gravityEnabled, animationId, pending, pc, dt,
                   deltaTime, width, height, budget, lastSpawn>>
    /\ UNCHANGED <<loopVars, particleVars>>

ClearObjects ==
    /\ HandlerMayRun
    /\ objects' = <<>>
    /\ objectCount' = 0
    /\ UNCHANGED <<isRunning, gravityEnabled, animationId, pending, pc, dt,
                   deltaTime, width, height, budget, lastSpawn>>
    /\ UNCHANGED <<loopVars, particleVars>>

\* render() down to the end of the first loop of update: nothing when the
\* simulation is not running, else dt and the integrate-and-clamp loop
RenderUpdate(elapsed, running) ==
    IF ~running
    THEN UNCHANGED <<objects, pc, dt, deltaTime, budget>>
    ELSE /\ deltaTime' = elapsed
         /\ dt' = DtFactor(elapsed)
         /\ objects' = UpdateObjects(objects, DtFactor(elapsed), gravityEnabled,
                                     width, height)
         /\ pc' = "integrated"
         /\ budget' = budget - 1

\* Stop gone wrong: animationId is reset and the request is not cancelled
StopForgetful ==
    /\ isRunning' = FALSE
    /\ animationId' = 0
    /\ UNCHANGED pending
    /\ UNCHANGED <<objects, pc, dt, deltaTime, budget>>

\* Stop gone wrong: the frame request is left pending
StopWithoutCancel ==
    /\ isRunning' = FALSE
    /\ UNCHANGED <<pending, animationId>>
    /\ UNCHANGED <<objects, pc, dt, deltaTime, budget>>

\* stop(): the pending frame request is cancelled
Stop ==
    /\ isRunning' = FALSE
    /\ IF animationId # 0
       THEN pending' = pending \ {animationId} /\ animationId' = 0
       ELSE UNCHANGED <<pending, animationId>>
    /\ UNCHANGED <<objects, pc, dt, deltaTime, budget>>

\* start(): lastTime is set and render() runs at once, so its deltaTime is 0
Start ==
    /\ isRunning' = TRUE
    /\ RenderUpdate(0, TRUE)
    /\ UNCHANGED <<pending, animationId>>

\* A click on the start/stop button
Toggle ==
    /\ HandlerMayRun
    /\ isRunning \/ budget > 0
    /\ IF isRunning THEN Stop ELSE Start
    /\ UNCHANGED <<objectCount, gravityEnabled, width, height, lastSpawn>>
    /\ UNCHANGED <<loopVars, particleVars>>

\* A scheduled frame callback runs render(), deltaTime after the last one
FrameAfter(deltas) ==
    /\ HandlerMayRun
    /\ budget > 0
    /\ \E id \in pending, elapsed \in deltas :
           /\ pending' = pending \ {id}
           /\ RenderUpdate(elapsed, isRunning)
    /\ UNCHANGED <<objectCount, isRunning, gravityEnabled, animationId,
                   width, height, lastSpawn>>
    /\ UNCHANGED <<loopVars, particleVars>>

FrameCallback == FrameAfter(DeltaTimes)

\* The second loop of update
CollisionPass ==
    /\ pc = "integrated"
    /\ objects' = CollideAll(objects)
    /\ pc' = "collided"
    /\ UNCHANGED <<objectCount, isRunning, gravityEnabled, animationId, pending,
                   dt, deltaTime, width, height, budget, lastSpawn>>
    /\ UNCHANGED <<loopVars, particleVars>>

\* createRadialGradient takes (restricted) doubles: a NaN argument makes it
\* throw a TypeError; arc, which takes unrestricted doubles, returns silently.
DrawThrows(objs) == \E i \in 1..Len(objs) : IsNaN(objs[i].x) \/ IsNaN(objs[i].y)

\* The smallest request id in use neither as a pending callback nor as the
\* (possibly stale) this.animationId
FreshId == CHOOSE id \in 1..(Cardinality(pending) + 2) :
               id \notin pending \cup {animationId}

\* The rest of render(): the drawing, then requestAnimationFrame.  An
\* exception of the drawing ends the task before the request is made.
FinishRender ==
    /\ pc = "collided"
    /\ pc' = "idle"
    /\ dt' = 0
    /\ deltaTime' = 0
    /\ IF DrawThrows(objects)
       THEN UNCHANGED <<animationId, pending>>
       ELSE /\ animationId' = FreshId
            /\ pending' = pending \cup {FreshId}
    /\ UNCHANGED <<objects, objectCount, isRunning, gravityEnabled,
                   width, height, budget, lastSpawn>>
    /\ UNCHANGED <<loopVars, particleVars>>

Next ==
    \/ Spawn
    \/ ClearObjects
    \/ ToggleGravity
    \/ Toggle
    \/ FrameCallback
    \/ CollisionPass
    \/ FinishRender

Spec == Init /\ [][Next]_vars

\* ------------------------------------------------------------------------
\* The population cap: the same machine, with clicks that keep coming at one
\* point with one outcome of Math.random(), and no bound of the model on
\* the number of bodies
\* ------------------------------------------------------------------------
CapDraws ==
    { Drawn(30000, 10000, <<200, 150, 60, 210>>) }

SpawnCap ==
    /\ HandlerMayRun
    /\ \E draw \in CapDraws : AddObjectAt(draw)
    /\ UNCHANGED <<loopVars, particleVars>>

NextCap ==
    \/ SpawnCap
    \/ ClearObjects
    \/ ToggleGravity

SpecCap == Init /\ [][NextCap]_vars

\* ------------------------------------------------------------------------
\* checkCollision as a function: a frame stands before its collision pass
\* with two bodies drawn from PairInputs, and the pass (one call of
\* checkCollision) runs
\* ------------------------------------------------------------------------
PairBody(px, py, r, v, e) ==
    [x |-> px, y |-> py, vx |-> v[1], vy |-> v[2], radius |-> r,
     mass |-> RDiv(r, 5), color |-> <<"hsl", 0, 70, 60>>,
     restitution |-> e, friction |-> Friction]

\* Offsets of the second center from the first: along x, along y, along
\* the 3-4-5 directions (whose normals are on the grid), apart, coincident
PairOffsets ==
    { <<1800, 0>>, <<0, 1500>>, <<900, 1200>>, <<-1200, 900>>, <<-600, -800>>,
      <<3000, 0>>, <<0, 0>> }

PairVelocities == { <<200, 0>>, <<-200, 0>>, <<0, 0>>, <<-300, 200>>, <<100, 400>> }

PairRadii == { 1000, 2000 }

PairRestitutions == { Restitution, 50 }

PairInputs ==
    { << PairBody(4000, 5000, r1, v1, e1),
         PairBody(4000 + d[1], 5000 + d[2], r2, v2, Restitution) >> :
        r1 \in PairRadii, r2 \in {1000}, v1 \in PairVelocities,
        v2 \in PairVelocities, e1 \in PairRestitutions, d \in PairOffsets }

InitPair ==
    /\ objects \in PairInputs
    /\ objectCount = 2
    /\ isRunning = TRUE
    /\ gravityEnabled = TRUE
    /\ animationId = 1
    /\ pending = {}
    /\ pc = "integrated"
    /\ dt = Scale
    /\ width = CanvasWidth
    /\ height = CanvasHeight
    /\ budget = 0
    /\ lastSpawn = [called |-> TRUE, pushed |-> TRUE, returned |-> "undefined",
                    at |-> <<0, 0>>]
    /\ deltaTime = FrameMs
    /\ loopI = 0
    /\ loopJ = 0
    /\ ParticlesIdle

NextPair == CollisionPass

SpecPair == InitPair /\ [][NextPair]_vars

\* ------------------------------------------------------------------------
\* One body and the walls: a running simulation with one body drawn from
\* BounceBodies (the last of them spawned across the left wall and moving
\* away from it), stepped by nominal frames.  Besides the 600 x 400 canvas
\* of createCanvas, the 100 x 100 world of the falling-body scenario.
\* ------------------------------------------------------------------------
BounceWorlds == { <<CanvasWidth, CanvasHeight>>, <<10000, 10000>> }

BounceBodies(w, h) ==
    { Drawn(5000, 1000, <<0, 250, 150, 150>>),
      Drawn(w - 500, h - 500, <<0, 25, 240, 240>>),
      Drawn(1500, 1200, <<0, 75, 30, 60>>),
      Drawn(1500, h \div 2, <<200, 125, 60, 150>>),
      Drawn(500, h \div 2, <<0, 200, 240, 150>>) }

InitBounce ==
    /\ \E world \in BounceWorlds :
           /\ width = world[1]
           /\ height = world[2]
           /\ \E draw \in BounceBodies(world[1], world[2]) :
                  objects = <<NewObject(draw)>>
    /\ objectCount = 1
    /\ isRunning = TRUE
    /\ gravityEnabled \in BOOLEAN
    /\ animationId = 1
    /\ pending = {1}
    /\ pc = "idle"
    /\ dt = 0
    /\ budget = BounceFrames
    /\ lastSpawn = [called |-> TRUE, pushed |-> TRUE, returned |-> "undefined",
                    at |-> <<0, 0>>]
    /\ deltaTime = 0
    /\ loopI = 0
    /\ loopJ = 0
    /\ ParticlesIdle

NominalFrame == FrameAfter({FrameMs})

\* The first frame may come after a long gap, which the cap cuts to dt = 2
LongFirstFrame == budget = BounceFrames /\ FrameAfter({3 * FrameMs})

NextBounce ==
    \/ NominalFrame
    \/ LongFirstFrame
    \/ CollisionPass
    \/ FinishRender

SpecBounce == InitBounce /\ [][NextBounce]_vars

\* ------------------------------------------------------------------------
\* update, statement by statement: a running simulation with one to
\* StepBodies bodies, whose frame callback runs update one loop iteration
\* at a time.  pc is "integrate" before the gravity test of body loopI,
\* "boundary" before its four wall tests, "pairs" before
\* checkCollision(objects[loopI], objects[loopJ]).
\* ------------------------------------------------------------------------
\* A body across the left wall, two neighbours that overlap it and each
\* other, a body falling onto the floor
StepDraws ==
    { Drawn(900, 20000, <<0, 175, 60, 210>>),
      Drawn(2200, 20500, <<0, 225, 240, 90>>),
      Drawn(1800, 21500, <<200, 275, 150, 180>>),
      Drawn(30000, 38900, <<0, 12, 180, 270>>) }

\* The collections of distinct bodies of StepDraws, in every order
StepInputs ==
    { [k \in DOMAIN draws |-> NewObject(draws[k])] :
        draws \in { f \in UNION { [1..n -> StepDraws] : n \in 1..StepBodies } :
                      \A a, b \in DOMAIN f : a # b => f[a] # f[b] } }

\* performance.now() differences: none, half a frame, a frame, a frame and
\* a half, and a gap of three frames
StepDeltaTimes == { 0, 833, FrameMs, 2500, 3 * FrameMs }

InitSteps ==
    /\ objects \in StepInputs
    /\ objectCount = Len(objects)
    /\ isRunning = TRUE
    /\ gravityEnabled \in BOOLEAN
    /\ animationId = 1
    /\ pending = {1}
    /\ pc = "idle"
    /\ dt = 0
    /\ width = CanvasWidth
    /\ height = CanvasHeight
    /\ budget = StepFrames
    /\ lastSpawn = [called |-> TRUE, pushed |-> TRUE, returned |-> "undefined",
                    at |-> <<0, 0>>]
    /\ deltaTime = 0
    /\ loopI = 0
    /\ loopJ = 0
    /\ ParticlesIdle

RECURSIVE PairLoopSkipping(_, _, _)
\* PairLoopFrom gone wrong: the inner loop starts at i + 2
PairLoopSkipping(a, b, n) ==
    IF a > n THEN [pc |-> "collided", i |-> 0, j |-> 0]
    ELSE IF b > n THEN PairLoopSkipping(a + 1, a + 3, n)
    ELSE [pc |-> "pairs", i |-> a, j |-> b]

RECURSIVE PairLoopFrom(_, _, _)
\* Where update stands once the headers of the pair loop have been tested
\* from i = a, j = b on, for n bodies: before the next checkCollision, or
\* past both loops
PairLoopFrom(a, b, n) ==
    IF a > n THEN [pc |-> "collided", i |-> 0, j |-> 0]
    ELSE IF b > n THEN PairLoopFrom(a + 1, a + 2, n)
    ELSE [pc |-> "pairs", i |-> a, j |-> b]

\* FirstLoopFrom gone wrong: the first loop ends after one body
FirstLoopOnce(k, n) ==
    IF k <= 1 /\ k <= n THEN [pc |-> "integrate", i |-> k, j |-> 0]
    ELSE PairLoopFrom(1, 2, n)

\* Where update stands once the header of the first loop has been tested
\* with i = k: in the body of the loop, or at the pair loop
FirstLoopFrom(k, n) ==
    IF k <= n THEN [pc |-> "integrate", i |-> k, j |-> 0]
    ELSE PairLoopFrom(1, 2, n)

GoTo(position) ==
    /\ pc' = position.pc
    /\ loopI' = position.i
    /\ loopJ' = position.j

\* The frame callback runs render(): deltaTime, then update down to its
\* first loop
BeginUpdate ==
    /\ HandlerMayRun
    /\ budget > 0
    /\ isRunning
    /\ \E id \in pending, elapsed \in StepDeltaTimes :
           /\ pending' = pending \ {id}
           /\ deltaTime' = elapsed
           /\ dt' = DtFactor(elapsed)
    /\ budget' = budget - 1
    /\ GoTo(FirstLoopFrom(1, Len(objects)))
    /\ UNCHANGED <<objects, objectCount, isRunning, gravityEnabled, animationId,
                   width, height, lastSpawn, particleVars>>

\* Gravity, friction and the position update of body loopI
IntegrateBody ==
    /\ pc = "integrate"
    /\ objects' = [objects EXCEPT ![loopI] = Integrate(@, dt, gravityEnabled)]
    /\ pc' = "boundary"
    /\ UNCHANGED <<objectCount, isRunning, gravityEnabled, animationId, pending,
                   dt, deltaTime, width, height, budget, lastSpawn, loopVars,
                   particleVars>>

\* The four wall tests of body loopI, then i++
ResolveBoundary ==
    /\ pc = "boundary"
    /\ objects' = [objects EXCEPT ![loopI] = BoundaryCollisions(@, width, height)]
    /\ GoTo(FirstLoopFrom(loopI + 1, Len(objects)))
    /\ UNCHANGED <<objectCount, isRunning, gravityEnabled, animationId, pending,
                   dt, deltaTime, width, height, budget, lastSpawn, particleVars>>

\* checkCollision(objects[i], objects[j]), then j++
CheckPair ==
    /\ pc = "pairs"
    /\ objects' = CollidePair(objects, loopI, loopJ)
    /\ GoTo(PairLoopFrom(loopI, loopJ + 1, Len(objects)))
    /\ UNCHANGED <<objectCount, isRunning, gravityEnabled, animationId, pending,
                   dt, deltaTime, width, height, budget, lastSpawn, particleVars>>

NextSteps ==
    \/ BeginUpdate
    \/ IntegrateBody
    \/ ResolveBoundary
    \/ CheckPair
    \/ FinishRender

SpecSteps == InitSteps /\ [][NextSteps]_vars

\* ------------------------------------------------------------------------
\* The ParticleSystem: its button, its frame callbacks, the window's resize,
\* and the user turning the reduced-motion preference of the system on or
\* off.  The PhysicsSimulation stays as constructed.
\* ------------------------------------------------------------------------
InitParticleSystem ==
    /\ SimulationConstructed
    /\ \E reduced \in BOOLEAN, size \in ParticleCanvasSizes, draw \in ParticleDraws :
           ParticleSystemConstructed(reduced, size, draw, ParticleFrames)

ParticleFreshId ==
    CHOOSE id \in 1..(Cardinality(particlesPending) + 2) :
        id \notin particlesPending \cup {particlesAnimationId}

\* animate(), stillPending being the requests that remain scheduled when it
\* is called: nothing when not running, else every particle is advanced
\* and drawn and the next frame is requested.  No test of the preference.
Animate(running, stillPending) ==
    IF ~running
    THEN /\ particlesPending' = stillPending
         /\ UNCHANGED <<particles, particlesAnimationId, particleBudget>>
    ELSE /\ particles' = AdvanceParticles(particles, particleCanvas)
         /\ particlesAnimationId' = ParticleFreshId
         /\ particlesPending' = stillPending \cup {ParticleFreshId}
         /\ particleBudget' = particleBudget - 1

\* start(): returns at once when running or when reduced motion is preferred
ParticleStart ==
    IF particlesRunning \/ prefersReducedMotion
    THEN UNCHANGED <<particlesRunning, particles, particlesAnimationId,
                     particlesPending, particleBudget>>
    ELSE /\ particlesRunning' = TRUE
         /\ Animate(TRUE, particlesPending)

ParticleStop ==
    /\ particlesRunning' = FALSE
    /\ IF particlesAnimationId # 0
       THEN /\ particlesPending' = particlesPending \ {particlesAnimationId}
            /\ particlesAnimationId' = 0
       ELSE UNCHANGED <<particlesPending, particlesAnimationId>>
    /\ UNCHANGED <<particles, particleBudget>>

\* A click on the toggle button
ParticleToggleClick ==
    /\ particlesRunning \/ prefersReducedMotion \/ particleBudget > 0
    /\ IF particlesRunning
       THEN ParticleStop /\ toggleBtnText' = "Start Particles"
       ELSE ParticleStart /\ toggleBtnText' = "Pause Particles"
    /\ UNCHANGED <<prefersReducedMotion, particleCanvas, simulationVars>>

\* A scheduled frame callback of the ParticleSystem runs animate()
ParticleFrame ==
    /\ particleBudget > 0
    /\ \E id \in particlesPending :
           Animate(particlesRunning, particlesPending \ {id})
    /\ UNCHANGED <<prefersReducedMotion, particleCanvas, particlesRunning,
                   toggleBtnText, simulationVars>>

\* The (debounced) resize listener: setupCanvas() sizes the canvas and
\* draws the particles anew
ParticleResize ==
    /\ \E size \in ParticleCanvasSizes, draw \in ParticleDraws :
           /\ size # particleCanvas
           /\ particleCanvas' = size
           /\ particles' = InitParticles(size, draw)
    /\ UNCHANGED <<prefersReducedMotion, particlesRunning, particlesAnimationId,
                   particlesPending, toggleBtnText, particleBudget, simulationVars>>

\* The user turns the reduced-motion preference of the system on or off.
\* The page has no listener for it.
MotionPreferenceChange ==
    /\ prefersReducedMotion' = ~prefersReducedMotion
    /\ UNCHANGED <<particleCanvas, particles, particlesRunning, particlesAnimationId,
                   particlesPending, toggleBtnText, particleBudget, simulationVars>>

NextParticleSystem ==
    \/ ParticleToggleClick
    \/ ParticleFrame
    \/ ParticleResize
    \/ MotionPreferenceChange

SpecParticleSystem == InitParticleSystem /\ [][NextParticleSystem]_vars

\* ------------------------------------------------------------------------
\* Vocabulary of the properties
\* ------------------------------------------------------------------------
\* Every Number of the body is a number
Finite(obj) == ~IsNaN(obj.x) /\ ~IsNaN(obj.y) /\ ~IsNaN(obj.vx) /\ ~IsNaN(obj.vy)

\* The center of the body is a point
FinitePosition(obj) == ~IsNaN(obj.x) /\ ~IsNaN(obj.y)

\* radius <= x <= width - radius and radius <= y <= height - radius
InBounds(obj, w, h) ==
    /\ ~IsNaN(obj.x) /\ ~IsNaN(obj.y)
    /\ obj.radius <= obj.x /\ obj.x <= w - obj.radius
    /\ obj.radius <= obj.y /\ obj.y <= h - obj.radius

\* The body touches no wall
StrictlyInside(obj, w, h) ==
    /\ ~IsNaN(obj.x) /\ ~IsNaN(obj.y)
    /\ obj.radius < obj.x /\ obj.x < w - obj.radius
    /\ obj.radius < obj.y /\ obj.y < h - obj.radius

\* The test of checkCollision on a pair
Overlapping(obj1, obj2) ==
    Near(Sub(obj2.x, obj1.x), Sub(obj2.y, obj1.y), obj1.radius + obj2.radius)

NoOverlap(objs) ==
    \A i, j \in 1..Len(objs) : i < j => ~Overlapping(objs[i], objs[j])

\* ------------------------------------------------------------------------
\* C1 (as claimed): immediately after a step, collision pass included, every
\* body satisfies radius <= x <= width - radius and radius <= y <= height -
\* radius.  Stated for the bodies whose coordinates are numbers, so that the
\* violation shown is a body pushed through a wall by the positional
\* correction of the collision pass, and not the NaN of C3.
\* ------------------------------------------------------------------------
C1_BoundaryContainment ==
    pc = "collided" =>
        \A i \in 1..Len(objects) :
            Finite(objects[i]) => InBounds(objects[i], width, height)

\* ------------------------------------------------------------------------
\* C3 (as claimed): a step that processes two bodies with coincident centers
\* leaves the position and velocity of every body finite numbers.
\* ------------------------------------------------------------------------
C3_ZeroDistanceFinite ==
    pc = "collided" => \A i \in 1..Len(objects) : Finite(objects[i])

\* ------------------------------------------------------------------------
\* C5 (as claimed): every frame of a running simulation runs to its end,
\* where the next frame is requested: between tasks, a running simulation
\* has its frame request pending.
\* ------------------------------------------------------------------------
C5_FrameLoopContinues ==
    (pc = "idle" /\ isRunning) => animationId \in pending

\* ------------------------------------------------------------------------
\* C6: the world is mutated only between frames.  While a frame is in
\* progress the only thing that happens is its next part: the collision
\* pass on the bodies the first loop left, then the drawing of the bodies
\* update left; no body is added or removed, and gravityEnabled and
\* isRunning keep their values, until the frame has ended.
\* ------------------------------------------------------------------------
C6_MutateOnlyBetweenFrames ==
    [][ /\ pc = "integrated" =>
            /\ pc' = "collided"
            /\ objects' = CollideAll(objects)
            /\ UNCHANGED <<gravityEnabled, isRunning, objectCount>>
        /\ pc = "collided" =>
            /\ pc' = "idle"
            /\ UNCHANGED <<objects, gravityEnabled, isRunning, objectCount>>
      ]_vars

C6_Witness ==
    /\ pc = "integrated"
    /\ isRunning
    /\ dt > 0
    /\ Len(objects) >= 1

\* ------------------------------------------------------------------------
\* C7: gravity toggling.  For a body that ends the first loop of a step
\* touching no wall, vx is its pre-step value times friction and vy is its
\* pre-step value times friction when gravity is disabled (with gravity
\* enabled the damping applies to vy + gravity.y * dt), for every dt; and a
\* collision pass in which no two bodies overlap changes nothing.
\* ------------------------------------------------------------------------
C7_GravityToggle ==
    [][ /\ (pc = "idle" /\ pc' = "integrated") =>
            \A i \in 1..Len(objects) :
                (Finite(objects[i]) /\ StrictlyInside(objects'[i], width, height)) =>
                    /\ objects'[i].vx = Mul(objects[i].vx, Friction)
                    /\ objects'[i].vy =
                           IF gravityEnabled
                           THEN Mul(objects[i].vy + Mul(GravityY, dt'), Friction)
                           ELSE Mul(objects[i].vy, Friction)
        /\ (pc = "integrated" /\ pc' = "collided" /\ NoOverlap(objects)) =>
            objects' = objects
      ]_vars

C7_Witness ==
    /\ pc = "collided"
    /\ ~gravityEnabled
    /\ dt > 0
    /\ \E i \in 1..Len(objects) :
           /\ StrictlyInside(objects[i], width, height)
           /\ objects[i].vy # 0
           /\ \A j \in 1..Len(objects) : j # i => ~Overlapping(objects[i], objects[j])

\* ------------------------------------------------------------------------
\* C2: population cap (SpecCap).  The collection never holds more than 50
\* bodies, and an addObjectAt call made while it holds 50 leaves the
\* collection (length, order, every field of every body) and the count
\* unchanged.  Only addObjectAt writes lastSpawn.
\* ------------------------------------------------------------------------
C2_PopulationCap ==
    /\ [](Len(objects) <= 50)
    /\ [][ (Len(objects) = 50 /\ lastSpawn' # lastSpawn) =>
               (objects' = objects /\ objectCount' = objectCount) ]_vars

C2_Witness ==
    /\ Len(objects) = 50
    /\ lastSpawn.called
    /\ ~lastSpawn.pushed

\* ------------------------------------------------------------------------
\* C4 (as claimed, SpecCap): a spawn requested at the cap returns an explicit
\* CapacityExceeded outcome, which a successful spawn does not return.
\* ------------------------------------------------------------------------
C4_CapacityExceededReturned ==
    lastSpawn.called =>
        (lastSpawn.returned = "CapacityExceeded" <=> ~lastSpawn.pushed)

\* ------------------------------------------------------------------------
\* C8 (SpecPair): the two-body scenario.  Radius 10, mass 2, centers (40,50)
\* and (58,50), velocities (2,0) and (-2,0).
\* ------------------------------------------------------------------------
C8Scenario ==
    << PairBody(4000, 5000, 1000, <<200, 0>>, Restitution),
       PairBody(5800, 5000, 1000, <<-200, 0>>, Restitution) >>

\* C8 as claimed: one pass moves each center 4 units apart along x (to 36
\* and 62) and makes the x velocities -1.6 and +1.6, y and vy unchanged.
C8_TwoBodyScenario ==
    [][ (pc = "integrated" /\ objects = C8Scenario) =>
            objects' = << [C8Scenario[1] EXCEPT !.x = 3600, !.vx = -160],
                          [C8Scenario[2] EXCEPT !.x = 6200, !.vx = 160] >> ]_vars

\* C8 as amended: the overlap is 20 - 18 = 2 units, so one pass moves each
\* center 1 unit apart along x (to 39 and 59) and makes the x velocities
\* -1.6 and +1.6, y and vy unchanged.
C8_TwoBodyScenarioAmended ==
    [][ (pc = "integrated" /\ objects = C8Scenario) =>
            objects' = << [C8Scenario[1] EXCEPT !.x = 3900, !.vx = -160],
                          [C8Scenario[2] EXCEPT !.x = 5900, !.vx = 160] >> ]_vars

C8_Witness ==
    /\ pc = "collided"
    /\ objects[1].x = 3900 /\ objects[1].y = 5000
    /\ objects[1].vx = -160 /\ objects[1].vy = 0
    /\ objects[2].x = 5900 /\ objects[2].y = 5000
    /\ objects[2].vx = 160 /\ objects[2].vy = 0

\* ------------------------------------------------------------------------
\* The bounce rule on one axis.  c and v are a body's center and velocity on
\* the axis after integration, cNew and vNew at the end of its iteration of
\* the first loop.
\* ------------------------------------------------------------------------
AxisRule(c, v, cNew, vNew, r, bound, e) ==
    IF Lt(Sub(c, r), 0)
    THEN cNew = r /\ vNew = Neg(Mul(v, e))
    ELSE IF Gt(Add(c, r), bound)
         THEN cNew = bound - r /\ vNew = Neg(Mul(v, e))
         ELSE cNew = c /\ vNew = v

\* C9 (SpecBounce): boundary bounce.  For each body, each axis follows the
\* rule on its own: center - radius < 0 sets the center to radius, center +
\* radius > bound sets it to bound - radius, either makes the velocity on
\* that axis -v * restitution, v the velocity at contact (so both axes can
\* bounce in one step, and an axis that hits no wall is untouched); and the
\* falling body of radius 10 in the 100 x 100 world ends its contact step at
\* y = 90 with vy = -(velocity at contact) * 0.8.
C9_BoundaryBounce ==
    [][ (pc = "idle" /\ pc' = "integrated") =>
            \A i \in 1..Len(objects) :
                LET m == Integrate(objects[i], dt', gravityEnabled)
                    p == objects'[i]
                IN  /\ AxisRule(m.x, m.vx, p.x, p.vx, m.radius, width, m.restitution)
                    /\ AxisRule(m.y, m.vy, p.y, p.vy, m.radius, height, m.restitution)
                    /\ (height = 10000 /\ m.radius = 1000 /\ m.y + 1000 > 10000) =>
                           (p.y = 9000 /\ p.vy = -Mul(m.vy, 80))
      ]_vars

\* The falling body of the scenario, at its first contact with the floor
C9_Witness ==
    /\ pc = "integrated"
    /\ height = 10000
    /\ gravityEnabled
    /\ objects[1].x = 5000 /\ objects[1].vx = 0
    /\ objects[1].y = 9000 /\ objects[1].vy < 0

\* dot(v2 - v1, normal)
RelativeSpeed(obj1, obj2, normalX, normalY) ==
    Add(Mul(Sub(obj2.vx, obj1.vx), normalX), Mul(Sub(obj2.vy, obj1.vy), normalY))

\* ------------------------------------------------------------------------
\* C10 (SpecPair): energy bound.  For an overlapping pair with distinct
\* centers that is approaching (rel <= 0), the relative velocity along the
\* collision normal after the response is -min(restitution_i,
\* restitution_j) * rel, so its size is at most that restitution times the
\* size of rel; both to within Tol units of the grid.
\* ------------------------------------------------------------------------
C10_EnergyBound ==
    [][ (pc = "integrated" /\ pc' = "collided" /\ Len(objects) = 2) =>
            LET dx == Sub(objects[2].x, objects[1].x)
                dy == Sub(objects[2].y, objects[1].y)
                normalX == Div(dx, Distance(dx, dy))
                normalY == Div(dy, Distance(dx, dy))
                rel == RelativeSpeed(objects[1], objects[2], normalX, normalY)
                relNew == RelativeSpeed(objects'[1], objects'[2], normalX, normalY)
                e == Min(objects[1].restitution, objects[2].restitution)
            IN  (Overlapping(objects[1], objects[2]) /\ ~IsNaN(rel) /\ rel <= 0) =>
                    /\ ~IsNaN(relNew)
                    /\ Abs(relNew + Mul(e, rel)) <= Tol
                    /\ Abs(relNew) <= Mul(e, Abs(rel)) + Tol
      ]_vars

\* An oblique approach (normal (0.6, 0.8), rel = -2.4, restitutions 0.5 and
\* 0.8) after its response: the relative normal velocity is +1.2
C10_Witness ==
    /\ pc = "collided"
    /\ objects[1].restitution = 50
    /\ objects[1].vx = 92 /\ objects[1].vy = -144
    /\ objects[2].vx = -92 /\ objects[2].vy = 144

\* The distance between the centers of two bodies
CenterDistance(obj1, obj2) ==
    Distance(Sub(obj2.x, obj1.x), Sub(obj2.y, obj1.y))

\* ------------------------------------------------------------------------
\* C11 (SpecPair): separation monotonicity.  For two overlapping bodies with
\* distinct centers and rel <= 0, the distance between the centers after
\* the pair is resolved is at least the distance before.
\* ------------------------------------------------------------------------
C11_SeparationMonotone ==
    [][ (pc = "integrated" /\ pc' = "collided" /\ Len(objects) = 2) =>
            LET before == CenterDistance(objects[1], objects[2])
                after == CenterDistance(objects'[1], objects'[2])
                dx == Sub(objects[2].x, objects[1].x)
                dy == Sub(objects[2].y, objects[1].y)
                rel == RelativeSpeed(objects[1], objects[2],
                                     Div(dx, before), Div(dy, before))
            IN  (Overlapping(objects[1], objects[2]) /\ before > 0
                 /\ ~IsNaN(rel) /\ rel <= 0) =>
                    /\ ~IsNaN(after)
                    /\ after >= before
      ]_vars

\* Radii 20 and 10 with centers 15 apart along (0.6, 0.8), approaching:
\* resolved, the centers are 30 apart
C11_Witness ==
    /\ pc = "collided"
    /\ objects[1].radius = 2000
    /\ objects[1].x = 3700 /\ objects[1].y = 4600
    /\ objects[2].x = 5500 /\ objects[2].y = 7000
    /\ objects[1].vx = 114 /\ objects[2].vy = 230
    /\ CenterDistance(objects[1], objects[2]) = 3000

\* Math.max(a, b)
Max(a, b) == IF IsNaN(a) \/ IsNaN(b) THEN NaN ELSE IF a > b THEN a ELSE b

\* utils.clamp(num, min, max): Math.min(Math.max(num, min), max)
Clamp(num, lo, hi) == Min(Max(num, lo), hi)

\* A frame is in progress, past the first statement of update
InUpdate == pc \in {"integrate", "boundary", "pairs", "collided"}

\* ------------------------------------------------------------------------
\* C12 (SpecSteps): timestep cap.  For every deltaTime given to update, the
\* dt it uses is clamp(deltaTime / 16.67, 0, 2): never more than 2 and
\* never negative.
\* ------------------------------------------------------------------------
C12_TimestepCap ==
    InUpdate =>
        /\ dt = Clamp(Div(deltaTime, FrameMs), 0, DtCap)
        /\ 0 <= dt
        /\ dt <= DtCap

\* A gap of three frames, cut to dt = 2
C12_Witness ==
    /\ pc = "integrate"
    /\ deltaTime = 3 * FrameMs
    /\ dt = 2 * Scale

\* The values a body keeps for life
Material(obj) == <<obj.radius, obj.mass, obj.restitution, obj.friction>>

\* A part of a frame runs in this step
FramePart == pc # "idle" \/ pc' # "idle"

\* ------------------------------------------------------------------------
\* C13 (Spec): bodies are removed only by clear.  The length of the
\* collection changes only by +1 (a spawn, which appends and leaves the
\* bodies before it in place) or to 0 (a clear); a step never adds, removes
\* or reorders bodies.
\* ------------------------------------------------------------------------
C13_RemovedOnlyByClear ==
    [][ /\ \/ Len(objects') = Len(objects)
           \/ Len(objects') = Len(objects) + 1
           \/ Len(objects') = 0
        /\ Len(objects') > Len(objects) =>
               SubSeq(objects', 1, Len(objects)) = objects
        /\ FramePart =>
               /\ Len(objects') = Len(objects)
               /\ \A i \in 1..Len(objects) :
                      Material(objects'[i]) = Material(objects[i])
      ]_vars

\* Emptied by a clear after spawns and a step
C13_Witness ==
    /\ objects = <<>>
    /\ lastSpawn.pushed
    /\ budget < MaxFrames
    /\ pc = "idle"

\* ------------------------------------------------------------------------
\* C14 (Spec): objectCount is the length of the body collection in every
\* reachable state, whatever spawns, clears and steps came before, between
\* the parts of a step as well.
\* ------------------------------------------------------------------------
C14_ObjectCountIsLength == objectCount = Len(objects)

\* Two bodies counted, in the middle of a step
C14_Witness ==
    /\ objectCount = 2
    /\ Len(objects) = 2
    /\ pc = "integrated"
    /\ budget < MaxFrames - 1

\* ------------------------------------------------------------------------
\* C15 (Spec): stopping means no more steps.  While the simulation is
\* stopped no frame is in progress and none is scheduled (the callback that
\* was scheduled when stop ran has been cancelled); from stop until the
\* next start no update runs and no body's position or velocity changes
\* (bodies can still be spawned or cleared); and a step in progress is never
\* cut short: it goes on to its next part with isRunning still true.
\* ------------------------------------------------------------------------
C15_StoppedMeansNoSteps ==
    /\ [](~isRunning => (pc = "idle" /\ pending = {}))
    /\ [][ (~isRunning /\ ~isRunning') =>
               /\ pc' = "idle"
               /\ budget' = budget
               /\ \A i \in 1..Len(objects) :
                      i <= Len(objects') => objects'[i] = objects[i]
      ]_vars
    /\ [][ pc # "idle" => (isRunning /\ isRunning' /\ pc' # pc) ]_vars

\* Stopped after the frame of start, which damped the body in the open (dt
\* = 0), drew it and requested the next frame
C15_Witness ==
    /\ ~isRunning
    /\ pc = "idle"
    /\ budget = MaxFrames - 1
    /\ animationId = 0
    /\ Len(objects) = 1
    /\ Finite(objects[1])
    /\ objects[1].x = 30000 /\ objects[1].vx = -297 /\ objects[1].vy = 198

\* ------------------------------------------------------------------------
\* C16 (as claimed, SpecParticleSystem): the ParticleSystem respects the
\* reduced-motion preference.  In no state where the preference is set does
\* an animate pass advance the particles, whether the button is clicked or
\* the preference became set while the ParticleSystem was running.
\* (particleBudget goes down exactly when an animate pass advances them.)
\* ------------------------------------------------------------------------
C16_ReducedMotionRespected ==
    [][ prefersReducedMotion => particleBudget' = particleBudget ]_vars

\* How many bodies the step in progress has integrated so far, and how many
\* it has taken through the wall tests
IntegratedBodies ==
    CASE pc = "integrate" -> loopI - 1
      [] pc = "boundary" -> loopI
      [] pc \in {"pairs", "collided"} -> Len(objects)
      [] OTHER -> 0

BoundaryResolvedBodies ==
    CASE pc \in {"integrate", "boundary"} -> loopI - 1
      [] pc \in {"pairs", "collided"} -> Len(objects)
      [] OTHER -> 0

\* ------------------------------------------------------------------------
\* C17 (as claimed, SpecSteps): step phase order.  No body's boundary check
\* runs before every body has been integrated, and no pair is resolved
\* before all bodies have been integrated and boundary-resolved.
\* ------------------------------------------------------------------------
C17_PhaseOrder ==
    /\ pc = "boundary" => IntegratedBodies = Len(objects)
    /\ pc = "pairs" => /\ IntegratedBodies = Len(objects)
                       /\ BoundaryResolvedBodies = Len(objects)

\* ------------------------------------------------------------------------
\* C17 as amended: a step computes dt first, before it touches a body;
\* then takes the bodies in collection order, each one through the
\* integrator and straight on through its boundary check before the next
\* body is integrated; then resolves pairs, none of them before every
\* body has been integrated and boundary-resolved, and with no return to
\* integration or boundary checks afterwards.
\* ------------------------------------------------------------------------
C17_PhaseOrderAmended ==
    [][ /\ (pc = "idle" /\ pc' # "idle") =>
               /\ dt' = DtFactor(deltaTime')
               /\ objects' = objects
               /\ pc' = "integrate" /\ loopI' = 1
        /\ pc = "integrate" =>
               /\ objects' = [objects EXCEPT
                                 ![loopI] = Integrate(@, dt, gravityEnabled)]
               /\ pc' = "boundary" /\ loopI' = loopI
        /\ pc = "boundary" =>
               /\ objects' = [objects EXCEPT
                                 ![loopI] = BoundaryCollisions(@, width, height)]
               /\ IF loopI < Len(objects)
                  THEN pc' = "integrate" /\ loopI' = loopI + 1
                  ELSE pc' \in {"pairs", "collided"}
        /\ pc = "pairs" =>
               /\ IntegratedBodies = Len(objects)
               /\ BoundaryResolvedBodies = Len(objects)
               /\ pc' \in {"pairs", "collided"}
      ]_vars

\* The body across the left wall has been integrated and set back on the
\* wall, and its neighbour, next in the collection, is still as it was
\* before the step
C17_Witness ==
    /\ pc = "integrate"
    /\ loopI = 2
    /\ Len(objects) >= 2
    /\ dt = Scale
    /\ objects[1].x = objects[1].radius /\ objects[1].vx > 0
    /\ objects[2].x = 2200 /\ objects[2].vx = 300 /\ objects[2].vy = -200

\* ------------------------------------------------------------------------
\* C18 (SpecSteps): integration order gravity, damping, position.  For
\* every body and every dt, before any wall test or collision handling of
\* the step, velocity' = (velocity + gravity * dt) * friction when gravity
\* is enabled and velocity * friction when it is not, and position' =
\* position + velocity' * dt: the position moves with the damped velocity.
\* ------------------------------------------------------------------------
C18_IntegrationOrder ==
    [][ pc = "integrate" =>
            LET old == objects[loopI]
                new == objects'[loopI]
                gx == IF gravityEnabled THEN Mul(GravityX, dt) ELSE 0
                gy == IF gravityEnabled THEN Mul(GravityY, dt) ELSE 0
            IN  /\ new.vx = Mul(Add(old.vx, gx), old.friction)
                /\ new.vy = Mul(Add(old.vy, gy), old.friction)
                /\ new.x = Add(old.x, Mul(new.vx, dt))
                /\ new.y = Add(old.y, Mul(new.vy, dt))
                /\ pc' = "boundary"
      ]_vars

\* The falling body at (300, 389) with velocity (1, 4), gravity on, dt = 2:
\* velocity (0.99, 4.95), then position (301.98, 398.9), past the floor
\* line and not yet tested against it
C18_Witness ==
    /\ pc = "boundary"
    /\ gravityEnabled
    /\ dt = 2 * Scale
    /\ objects[loopI].vx = 99 /\ objects[loopI].vy = 495
    /\ objects[loopI].x = 30198 /\ objects[loopI].y = 39890

\* The unordered pairs of n bodies, as <<i, j>> with i < j
Pairs(n) == { p \in (1..n) \X (1..n) : p[1] < p[2] }

\* Lexicographic order on pairs
LexLess(p, q) == p[1] < q[1] \/ (p[1] = q[1] /\ p[2] < q[2])

\* q comes right after p among the pairs of n bodies
LexNext(p, q, n) ==
    /\ q \in Pairs(n)
    /\ LexLess(p, q)
    /\ \A r \in Pairs(n) : ~(LexLess(p, r) /\ LexLess(r, q))

\* ------------------------------------------------------------------------
\* C19 (SpecSteps): pair processing.  Within one step every unordered pair
\* (i, j), i < j, is examined exactly once, in ascending lexicographic
\* order, in a single pass: the pass starts at the least pair, each
\* checkCollision works on the bodies as the pairs before it left them and
\* is followed by the next pair in the order, and the pass ends after the
\* greatest pair; it is not left out when there are two bodies or more.
\* ------------------------------------------------------------------------
C19_PairProcessing ==
    [][ /\ (pc # "pairs" /\ pc' = "pairs") => (loopI' = 1 /\ loopJ' = 2)
        /\ (pc = "boundary" /\ pc' = "collided") => Len(objects) < 2
        /\ pc = "pairs" =>
               /\ <<loopI, loopJ>> \in Pairs(Len(objects))
               /\ objects' = CollidePair(objects, loopI, loopJ)
               /\ IF \E q \in Pairs(Len(objects)) : LexLess(<<loopI, loopJ>>, q)
                  THEN /\ pc' = "pairs"
                       /\ LexNext(<<loopI, loopJ>>, <<loopI', loopJ'>>, Len(objects))
                  ELSE pc' = "collided"
      ]_vars

\* Three bodies, the first two pairs done, the last pair still overlapping
\* and about to be examined
C19_Witness ==
    /\ pc = "pairs"
    /\ Len(objects) = 3
    /\ loopI = 2 /\ loopJ = 3
    /\ Overlapping(objects[2], objects[3])
    /\ objects[1].x < objects[1].radius

\* dot(to - from, normal): how far a body has moved along the normal
Along(from, to, normalX, normalY) ==
    Add(Mul(Sub(to.x, from.x), normalX), Mul(Sub(to.y, from.y), normalY))

\* How far a body has moved across the normal
Across(from, to, normalX, normalY) ==
    Sub(Mul(Sub(to.x, from.x), normalY), Mul(Sub(to.y, from.y), normalX))

\* ------------------------------------------------------------------------
\* C20 (SpecPair): the positional correction splits the overlap inversely
\* by mass.  For an overlapping pair with distinct centers, body i moves by
\* overlap * (mass_j / (mass_i + mass_j)) against the normal and body j by
\* overlap * (mass_i / (mass_i + mass_j)) along it, neither moves across
\* it, the two displacements add up to the overlap, and the heavier body
\* moves less; all to within Tol units of the grid.  A pair whose distance
\* is r_i + r_j or more is left entirely unchanged.
\* ------------------------------------------------------------------------
C20_CorrectionInverseToMass ==
    [][ (pc = "integrated" /\ pc' = "collided" /\ Len(objects) = 2) =>
            LET dx == Sub(objects[2].x, objects[1].x)
                dy == Sub(objects[2].y, objects[1].y)
                distance == CenterDistance(objects[1], objects[2])
                overlap == objects[1].radius + objects[2].radius - distance
                normalX == Div(dx, distance)
                normalY == Div(dy, distance)
                totalMass == objects[1].mass + objects[2].mass
                moved1 == Along(objects[1], objects'[1], normalX, normalY)
                moved2 == Along(objects[2], objects'[2], normalX, normalY)
            IN  /\ (Overlapping(objects[1], objects[2]) /\ distance > 0) =>
                       /\ Abs(moved1 + MulDiv(overlap, objects[2].mass, totalMass)) <= Tol
                       /\ Abs(moved2 - MulDiv(overlap, objects[1].mass, totalMass)) <= Tol
                       /\ Abs(Across(objects[1], objects'[1], normalX, normalY)) <= Tol
                       /\ Abs(Across(objects[2], objects'[2], normalX, normalY)) <= Tol
                       /\ Abs(moved2 - moved1 - overlap) <= Tol
                       /\ objects[1].mass > objects[2].mass =>
                              Abs(moved1) < Abs(moved2)
                /\ ~Overlapping(objects[1], objects[2]) => objects' = objects
      ]_vars

\* Masses 4 and 2, centers 18 apart along x, radii 20 and 10: of the overlap
\* of 12 the heavier body has taken 4 and the lighter 8
C20_Witness ==
    /\ pc = "collided"
    /\ objects[1].mass = 400 /\ objects[2].mass = 200
    /\ objects[1].x = 3600 /\ objects[1].y = 5000
    /\ objects[2].x = 6600 /\ objects[2].y = 5000

\* ------------------------------------------------------------------------
\* C21 (SpecPair): separating pairs get no velocity response.  For an
\* overlapping pair with distinct centers, when the relative velocity along
\* the normal is strictly positive the positional correction is applied
\* (the centers end further apart) and both velocities are exactly as
\* before; when it is zero or negative each velocity is the old one plus
\* or minus impulse * (the other mass) * normal, with impulse = (1 +
\* restitution) * rel / (mass_i + mass_j).
\* ------------------------------------------------------------------------
C21_SeparatingNoResponse ==
    [][ (pc = "integrated" /\ pc' = "collided" /\ Len(objects) = 2) =>
            LET obj1 == objects[1]
                obj2 == objects[2]
                dx == Sub(obj2.x, obj1.x)
                dy == Sub(obj2.y, obj1.y)
                distance == CenterDistance(obj1, obj2)
                normalX == Div(dx, distance)
                normalY == Div(dy, distance)
                rel == RelativeSpeed(obj1, obj2, normalX, normalY)
                impulse == Div(Mul(Scale + Min(obj1.restitution, obj2.restitution), rel),
                               obj1.mass + obj2.mass)
            IN  (Overlapping(obj1, obj2) /\ distance > 0) =>
                    /\ CenterDistance(objects'[1], objects'[2]) > distance
                    /\ rel > 0 =>
                           /\ objects'[1].vx = obj1.vx /\ objects'[1].vy = obj1.vy
                           /\ objects'[2].vx = obj2.vx /\ objects'[2].vy = obj2.vy
                    /\ rel <= 0 =>
                           /\ objects'[1].vx = obj1.vx + Mul(Mul(impulse, obj2.mass), normalX)
                           /\ objects'[1].vy = obj1.vy + Mul(Mul(impulse, obj2.mass), normalY)
                           /\ objects'[2].vx = obj2.vx - Mul(Mul(impulse, obj1.mass), normalX)
                           /\ objects'[2].vy = obj2.vy - Mul(Mul(impulse, obj1.mass), normalY)
                           /\ rel < 0 => objects'[1].vx # obj1.vx \/ objects'[1].vy # obj1.vy
      ]_vars

\* Equal bodies 18 apart along x moving apart at 2 each: set 20 apart,
\* velocities as they were
C21_Witness ==
    /\ pc = "collided"
    /\ objects[1].radius = 1000
    /\ objects[1].x = 3900 /\ objects[1].y = 5000
    /\ objects[2].x = 5900 /\ objects[2].y = 5000
    /\ objects[1].vx = -200 /\ objects[1].vy = 0
    /\ objects[2].vx = 200 /\ objects[2].vy = 0

\* The component of a body's velocity across the normal (along the tangent
\* (-normalY, normalX))
Tangential(obj, normalX, normalY) ==
    Sub(Mul(obj.vy, normalX), Mul(obj.vx, normalY))

\* ------------------------------------------------------------------------
\* C22 (SpecPair): the velocity response acts along the collision normal
\* only.  For every overlapping pair with distinct centers, each body's
\* velocity component perpendicular to the normal is the same after the
\* resolution as before it, to within Tol units of the grid.
\* ------------------------------------------------------------------------
C22_TangentialUnchanged ==
    [][ (pc = "integrated" /\ pc' = "collided" /\ Len(objects) = 2) =>
            LET distance == CenterDistance(objects[1], objects[2])
                normalX == Div(Sub(objects[2].x, objects[1].x), distance)
                normalY == Div(Sub(objects[2].y, objects[1].y), distance)
            IN  (Overlapping(objects[1], objects[2]) /\ distance > 0) =>
                    \A k \in 1..2 :
                        Abs(Tangential(objects'[k], normalX, normalY)
                            - Tangential(objects[k], normalX, normalY)) <= Tol
      ]_vars

\* Normal (0.6, 0.8), velocities (-3, 2) and (-2, 0), approaching (rel =
\* -1): after the response the velocities have changed and their
\* tangential components, 3.6 and 1.6, have not
C22_Witness ==
    /\ pc = "collided"
    /\ objects[2].x - objects[1].x = 1200 /\ objects[2].y - objects[1].y = 1600
    /\ objects[1].vx # -300 /\ objects[2].vx # 100
    /\ Abs(Tangential(objects[1], 60, 80) - 360) <= Tol
    /\ Abs(Tangential(objects[2], 60, 80) - 160) <= Tol

\* ------------------------------------------------------------------------
\* C23 (Spec): body material invariants.  Every body in every reachable
\* state has radius in [10, 25), mass radius / 5, restitution 0.8 and
\* friction 0.99; and whatever happens (a step, a gravity toggle, a
\* collision, a start or stop, another spawn), a body that stays in the
\* collection keeps its radius, mass, restitution, friction and color.
\* ------------------------------------------------------------------------
C23_MaterialInvariants ==
    /\ [](\A i \in 1..Len(objects) :
             /\ 10 * Scale <= objects[i].radius /\ objects[i].radius < 25 * Scale
             /\ objects[i].mass = RDiv(objects[i].radius, 5)
             /\ objects[i].restitution = 80
             /\ objects[i].friction = 99)
    /\ [][ \A i \in 1..Len(objects) :
               i <= Len(objects') =>
                   /\ Material(objects'[i]) = Material(objects[i])
                   /\ objects'[i].color = objects[i].color
      ]_vars

\* The body of the greatest radius (24.95, mass 4.99), spawned after a
\* body of radius 20, at the end of a step without gravity that damped its
\* velocity
C23_Witness ==
    /\ pc = "collided"
    /\ ~gravityEnabled
    /\ Len(objects) = 2
    /\ objects[1].radius = 2000 /\ objects[1].mass = 400
    /\ objects[2].radius = 2495 /\ objects[2].mass = 499
    /\ objects[2].vx = 492 /\ objects[2].vy = -495
    /\ objects[2].color = <<"hsl", 359, 70, 60>>

\* ------------------------------------------------------------------------
\* C24 (Spec): spawn only appends.  A successful addObjectAt(x, y) adds
\* exactly one body, at the end of the collection, at exactly (x, y) (not
\* clamped to the bounds) with each velocity component in [-5, 5), and
\* leaves the bodies before it, their order, gravityEnabled and isRunning
\* as they were.
\* ------------------------------------------------------------------------
C24_SpawnOnlyAppends ==
    [][ Len(objects') > Len(objects) =>
            LET new == objects'[Len(objects')]
            IN  /\ Len(objects') = Len(objects) + 1
                /\ SubSeq(objects', 1, Len(objects)) = objects
                /\ lastSpawn'.pushed
                /\ new.x = lastSpawn'.at[1] /\ new.y = lastSpawn'.at[2]
                /\ -5 * Scale <= new.vx /\ new.vx < 5 * Scale
                /\ -5 * Scale <= new.vy /\ new.vy < 5 * Scale
                /\ UNCHANGED <<gravityEnabled, isRunning>>
      ]_vars

\* Spawned at (5, 200) with radius 10 while the simulation is running, and
\* not yet stepped: the body lies across the left wall, second in the
\* collection
C24_Witness ==
    /\ isRunning
    /\ pc = "idle"
    /\ Len(objects) = 2
    /\ lastSpawn.pushed /\ lastSpawn.at = <<500, 20000>>
    /\ objects[2].x = 500 /\ objects[2].y = 20000
    /\ objects[2].vx = 0 /\ objects[2].vy = 0
    /\ objects[1].x = 30000 /\ objects[1].vx = -297

\* ------------------------------------------------------------------------
\* C25 (Spec): at most one frame is ever pending.  Under every interleaving
\* of start and stop clicks with frame callbacks the simulation has at most
\* one frame request outstanding, the one held in animationId; none while
\* it is stopped, and none while a frame is in progress, so that no two
\* render loops run side by side and a frame callback runs one step.
\* ------------------------------------------------------------------------
C25_OneFramePending ==
    /\ Cardinality(pending) <= 1
    /\ pending \subseteq {animationId}
    /\ ~isRunning => pending = {}
    /\ pc # "idle" => pending = {}

\* Started, stopped and started again (two frames with dt = 0: the body in
\* the open has been damped twice and has not moved): one request pending
C25_Witness ==
    /\ isRunning
    /\ pc = "idle"
    /\ Cardinality(pending) = 1
    /\ budget = MaxFrames - 2
    /\ Len(objects) = 1
    /\ objects[1].x = 30000 /\ objects[1].vx = -294

\* ------------------------------------------------------------------------
\* C26 (Spec): containment holds at the end of the boundary phase.  On the
\* 600 x 400 canvas, right after the integrate-and-clamp loop of a step
\* and before its collision pass, every body with a finite position has
\* radius <= x <= width - radius and radius <= y <= height - radius; and a
\* collection of one body satisfies this at the end of the step as well.
\* ------------------------------------------------------------------------
C26_ContainmentAfterBoundary ==
    /\ pc = "integrated" =>
           \A i \in 1..Len(objects) :
               FinitePosition(objects[i]) => InBounds(objects[i], width, height)
    /\ (pc = "collided" /\ Len(objects) = 1) =>
           (FinitePosition(objects[1]) => InBounds(objects[1], width, height))

\* The body spawned across the left wall and the body spawned across the
\* bottom right corner, both set back on the walls by the first loop
C26_Witness ==
    /\ pc = "integrated"
    /\ Len(objects) = 2
    /\ objects[1].x = objects[1].radius
    /\ objects[2].x = width - objects[2].radius
    /\ objects[2].y = height - objects[2].radius
    /\ width = 60000 /\ height = 40000

\* ------------------------------------------------------------------------
\* C27 (as claimed, SpecBounce): a wall bounce sends the body back inside.
\* Whenever the first loop of a step sets a body on a wall, the body's
\* velocity on that axis at the end of the loop points away from that wall
\* or is zero: >= 0 on the low side, <= 0 on the high side.  (m is the body
\* as integrated, before its wall tests; p the body at the end of the
\* loop.)
\* ------------------------------------------------------------------------
C27_BounceSendsBackInside ==
    [][ (pc = "idle" /\ pc' = "integrated") =>
            \A i \in 1..Len(objects) :
                LET m == Integrate(objects[i], dt', gravityEnabled)
                    p == objects'[i]
                IN  /\ Lt(Sub(m.x, m.radius), 0) => p.vx >= 0
                    /\ Gt(Add(m.x, m.radius), width) => p.vx <= 0
                    /\ Lt(Sub(m.y, m.radius), 0) => p.vy >= 0
                    /\ Gt(Add(m.y, m.radius), height) => p.vy <= 0
      ]_vars

\* ------------------------------------------------------------------------
\* C28 (SpecPair): pair resolution conserves momentum and the centre of
\* mass.  For every overlapping pair with distinct centers, mass_i * v_i +
\* mass_j * v_j and mass_i * position_i + mass_j * position_j are the same
\* after the resolution as before it, on each axis, to within Tol units of
\* the grid.
\* ------------------------------------------------------------------------
C28_MomentumAndCentreOfMass ==
    [][ (pc = "integrated" /\ pc' = "collided" /\ Len(objects) = 2) =>
            LET a == objects[1]
                b == objects[2]
                c == objects'[1]
                d == objects'[2]
            IN  (Overlapping(a, b) /\ CenterDistance(a, b) > 0) =>
                    /\ Abs(a.mass * (c.vx - a.vx) + b.mass * (d.vx - b.vx)) <= Tol * Scale
                    /\ Abs(a.mass * (c.vy - a.vy) + b.mass * (d.vy - b.vy)) <= Tol * Scale
                    /\ Abs(a.mass * (c.x - a.x) + b.mass * (d.x - b.x)) <= Tol * Scale
                    /\ Abs(a.mass * (c.y - a.y) + b.mass * (d.y - b.y)) <= Tol * Scale
      ]_vars

\* Masses 4 and 2, centers 18 apart along x, velocities (2, 0) and (-2, 0):
\* resolved, the bodies are at x = 36 and 66 (4 * 40 + 2 * 58 = 4 * 36 + 2 *
\* 66) with velocities -0.4 and 2.8 (4 * 2 - 2 * 2 = -4 * 0.4 + 2 * 2.8)
C28_Witness ==
    /\ pc = "collided"
    /\ objects[1].mass = 400 /\ objects[2].mass = 200
    /\ objects[1].x = 3600 /\ objects[2].x = 6600
    /\ objects[1].vx = -40 /\ objects[2].vx = 280
    /\ objects[1].vy = 0 /\ objects[2].vy = 0

\* ------------------------------------------------------------------------
\* C29 (Spec): the gravity toggle is an involution with no other effect.
\* Gravity is enabled in the constructed simulation.  Between two handlers
\* a toggle is always possible, and it flips gravityEnabled; a step that
\* changes gravityEnabled changes nothing else: not the collection, not a
\* body, not the running flag, not the frame request.  The toggle is then
\* possible again and flips the flag back, so two toggles in a row restore
\* the state.  A step that changes the collection (a clear, a spawn, a
\* frame) or records a spawn leaves gravityEnabled as it was.
\* ------------------------------------------------------------------------
C29_GravityToggleInvolution ==
    /\ gravityEnabled = TRUE
    /\ [][ /\ gravityEnabled \in BOOLEAN
           /\ HandlerMayRun =>
                  ENABLED (ToggleGravity /\ gravityEnabled' = ~gravityEnabled)
           /\ gravityEnabled' # gravityEnabled =>
                  /\ gravityEnabled' = ~gravityEnabled
                  /\ UNCHANGED <<objects, objectCount, isRunning, animationId,
                                 pending, pc, dt, width, height, lastSpawn>>
                  /\ HandlerMayRun'
           /\ (objects' # objects \/ lastSpawn' # lastSpawn) =>
                  gravityEnabled' = gravityEnabled
         ]_vars

\* Gravity has been switched off between two frames of a running simulation
\* that holds two bodies, the first of them already moved by a frame
C29_Witness ==
    /\ ~gravityEnabled
    /\ isRunning /\ pc = "idle" /\ pending # {}
    /\ Len(objects) = 2
    /\ objects[1].x # lastSpawn.at[1]
    /\ objects[2].x = lastSpawn.at[1] /\ objects[2].y = lastSpawn.at[2]

\* ------------------------------------------------------------------------
\* C30 (SpecParticleSystem): the label of the particle toggle button always
\* matches the animation state.  In every reachable state after init,
\* whether the animation started by itself at load or not and whatever the
\* motion preference at the time of a click, the button reads 'Pause
\* Particles' exactly when isRunning is true and 'Start Particles' exactly
\* when it is false.
\* ------------------------------------------------------------------------
C30_LabelMatchesState ==
    /\ toggleBtnText \in {"Pause Particles", "Start Particles"}
    /\ toggleBtnText = "Pause Particles" <=> particlesRunning
    /\ toggleBtnText = "Start Particles" <=> ~particlesRunning

====
